---------------------------- MODULE Spec2Model ----------------------------
(***************************************************************************)
(* Model of info/seeing_stars_to_txt.py: the fetch -> normalise -> collect *)
(* links -> filter -> format -> write pipeline of main().                  *)
(*                                                                         *)
(* A Python str is a sequence of one-character strings; the two non-ASCII  *)
(* dashes of the source are the characters "endash" and "emdash".  A line  *)
(* of the report buffer is such a sequence too, built by the same          *)
(* concatenations as the f-strings of the source.                          *)
(***************************************************************************)
EXTENDS Integers, Sequences, FiniteSets, TLC

VARIABLES
    pc,           \* position in main(): "loop", "fetch", "debug", "entries", "done", "raised"
    i,            \* index in URLS of the url the for loop is at (line 71)
    out,          \* the report buffer (line 62)
    total_lines,  \* line 69
    page,         \* what BeautifulSoup gives for the fetched html (lines 83-98)
    lines,        \* line 91
    wiki_links,   \* line 94
    kept,         \* line 101
    k,            \* index in kept of the line the inner for loop is at (line 117)
    ln,           \* the loop variable of line 117
    name_guess,   \* line 120
    token,        \* line 124
    wiki_guess,   \* line 122
    written,      \* content of OUTFILE (line 138)
    console,      \* what was printed (line 140)
    hist,         \* history: per started url, where its block starts and how its fetch ended
    processed,    \* history: the kept lines whose loop iteration has begun
    extremes,     \* number of fetches that gave one of the two extreme pages
    arg           \* inputs still to be consumed by the function-level specifications

vars == <<pc, i, out, total_lines, page, lines, wiki_links, kept, k, ln, name_guess,
          token, wiki_guess, written, console, hist, processed, extremes, arg>>

NoValue == <<"<unbound>">>

(***************************************************************************)
(* Characters                                                              *)
(***************************************************************************)
Digits == {"0", "1", "2", "3", "4", "5", "6", "7", "8", "9"}

LowerLetters == {"a", "b", "c", "d", "e", "f", "g", "h", "i", "j", "k", "l", "m",
                 "n", "o", "p", "q", "r", "s", "t", "u", "v", "w", "x", "y", "z"}

UpperToLower == [c \in {"A", "B", "C", "D", "E", "F", "G", "H", "I", "J", "K", "L", "M",
                        "N", "O", "P", "Q", "R", "S", "T", "U", "V", "W", "X", "Y", "Z"} |->
    CASE c = "A" -> "a" [] c = "B" -> "b" [] c = "C" -> "c" [] c = "D" -> "d"
      [] c = "E" -> "e" [] c = "F" -> "f" [] c = "G" -> "g" [] c = "H" -> "h"
      [] c = "I" -> "i" [] c = "J" -> "j" [] c = "K" -> "k" [] c = "L" -> "l"
      [] c = "M" -> "m" [] c = "N" -> "n" [] c = "O" -> "o" [] c = "P" -> "p"
      [] c = "Q" -> "q" [] c = "R" -> "r" [] c = "S" -> "s" [] c = "T" -> "t"
      [] c = "U" -> "u" [] c = "V" -> "v" [] c = "W" -> "w" [] c = "X" -> "x"
      [] c = "Y" -> "y" [] c = "Z" -> "z"]

UpperLetters == DOMAIN UpperToLower

\* \s of the re module
IsSpace(c) == c \in {" ", "\t", "\n", "\r", "\f"}

\* \d of the re module
IsDigit(c) == c \in Digits

\* \w of the re module, which decides \b
IsWord(c) == c \in Digits \cup LowerLetters \cup UpperLetters \cup {"_"}

\* str.lower(), and the folding re.IGNORECASE applies to a character
LowerChar(c) == IF c \in UpperLetters THEN UpperToLower[c] ELSE c

Lower(s) == [n \in 1..Len(s) |-> LowerChar(s[n])]

\* needle in hay
Contains(hay, needle) ==
    \E a \in 1..(Len(hay) - Len(needle) + 1) : SubSeq(hay, a, a + Len(needle) - 1) = needle

(***************************************************************************)
(* clean (lines 58-59)                                                     *)
(***************************************************************************)
RECURSIVE DropSpaces(_)
DropSpaces(s) ==
    IF s # <<>> /\ IsSpace(Head(s)) THEN DropSpaces(Tail(s)) ELSE s

\* re.sub(r"\s+", " ", s)
RECURSIVE CollapseSpaces(_)
CollapseSpaces(s) ==
    IF s = <<>> THEN <<>>
    ELSE IF IsSpace(Head(s)) THEN <<" ">> \o CollapseSpaces(DropSpaces(s))
    ELSE <<Head(s)>> \o CollapseSpaces(Tail(s))

\* str.strip()
Strip(s) ==
    LET inner == {n \in 1..Len(s) : ~IsSpace(s[n])}
    IN  IF inner = {} THEN <<>>
        ELSE SubSeq(s, CHOOSE a \in inner : \A b \in inner : a <= b,
                       CHOOSE a \in inner : \A b \in inner : a >= b)

clean(s) == Strip(CollapseSpaces(s))

(***************************************************************************)
(* DATE_PAT (lines 40-44)                                                  *)
(***************************************************************************)
\* the strings MONTH_RE matches, lower-cased (re.IGNORECASE)
MONTH_RE ==
    { <<"j", "a", "n">>, <<"j", "a", "n", "u", "a", "r", "y">>, <<"f", "e", "b">>, <<"f", "e", "b", "r", "u", "a", "r", "y">>, <<"m", "a", "r">>, <<"m", "a", "r", "c", "h">>, <<"a", "p", "r">>, <<"a", "p", "r", "i", "l">>,
      <<"m", "a", "y">>, <<"j", "u", "n">>, <<"j", "u", "n", "e">>, <<"j", "u", "l">>, <<"j", "u", "l", "y">>, <<"a", "u", "g">>, <<"a", "u", "g", "u", "s", "t">>,
      <<"s", "e", "p">>, <<"s", "e", "p", "t">>, <<"s", "e", "p", "t", "e", "m", "b", "e", "r">>, <<"o", "c", "t">>, <<"o", "c", "t", "o", "b", "e", "r">>, <<"n", "o", "v">>, <<"n", "o", "v", "e", "m", "b", "e", "r">>,
      <<"d", "e", "c">>, <<"d", "e", "c", "e", "m", "b", "e", "r">> }

\* a matcher is run from a set of positions and gives the positions it can end at
AfterMonth(s, P) ==
    { p + Len(m) : <<p, m>> \in
        { <<p, m>> \in P \X MONTH_RE :
            /\ p + Len(m) - 1 <= Len(s)
            /\ Lower(SubSeq(s, p, p + Len(m) - 1)) = m } }

\* \s+
AfterSpaces(s, P) ==
    { q \in 1..(Len(s) + 1) : \E p \in P : p < q /\ \A n \in p..(q - 1) : IsSpace(s[n]) }

\* \d{lo,hi}
AfterDigits(s, P, lo, hi) ==
    { q \in 1..(Len(s) + 1) :
        \E p \in P : (q - p) \in lo..hi /\ \A n \in p..(q - 1) : IsDigit(s[n]) }

\* a literal character
AfterChar(s, P, c) == { p + 1 : p \in { p \in P : p <= Len(s) /\ s[p] = c } }

\* \b
WordBoundary(s, p) ==
    (p > 1 /\ IsWord(s[p - 1])) # (p <= Len(s) /\ IsWord(s[p]))

\* ({MONTH_RE}\s+\d{1,2},\s+\d{4})
MonthDateAt(s, p) ==
    AfterDigits(s,
        AfterSpaces(s,
            AfterChar(s,
                AfterDigits(s, AfterSpaces(s, AfterMonth(s, {p})), 1, 2),
                ",")),
        4, 4) # {}

\* (\d{1,2}/\d{1,2}/\d{2,4})
NumericDateAt(s, p) ==
    AfterDigits(s,
        AfterChar(s,
            AfterDigits(s, AfterChar(s, AfterDigits(s, {p}, 1, 2), "/"), 1, 2),
            "/"),
        2, 4) # {}

\* \b(19\d{2}|20\d{2})\b
BareYearAt(s, p) ==
    /\ WordBoundary(s, p)
    /\ \E q \in AfterDigits(s, AfterChar(s, AfterChar(s, {p}, "1"), "9")
                                 \cup AfterChar(s, AfterChar(s, {p}, "2"), "0"), 2, 2) :
           WordBoundary(s, q)

\* DATE_PAT.search(s) is not None
DATE_PAT_search(s) ==
    \E p \in 1..(Len(s) + 1) :
        MonthDateAt(s, p) \/ NumericDateAt(s, p) \/ BareYearAt(s, p)

(***************************************************************************)
(* The entry filter (lines 100-106)                                        *)
(***************************************************************************)
\* the length test off by one
TooShort_Mutant(s) == Len(s) <= 10

\* line 103
TooShort(s) == Len(s) < 10

IsKept(s) == ~TooShort(s) /\ DATE_PAT_search(s)

KeepLines(ls) == SelectSeq(ls, IsKept)

(***************************************************************************)
(* The normaliser and the link collector (lines 83-98).  A page is what    *)
(* BeautifulSoup hands back for the fetched html: segs is                  *)
(* soup.get_text("\n").split("\n") after every <br> became a newline, and  *)
(* anchors holds a.get("href") of each <a>, NoHref when there is none.     *)
(***************************************************************************)
NoHref == <<"<None>">>

\* line 91
Normalize(segs) ==
    SelectSeq([n \in 1..Len(segs) |-> clean(segs[n])], LAMBDA x : x # <<>>)

\* WIKI_PAT.search(href) is not None (line 45)
WIKI_PAT_search(href) == Contains(Lower(href), <<"w", "i", "k", "i", "p", "e", "d", "i", "a", ".", "o", "r", "g", "/", "w", "i", "k", "i", "/">>)

\* lines 94-98
CollectWikiLinks(anchors) ==
    SelectSeq([n \in 1..Len(anchors) |-> IF anchors[n] = NoHref THEN <<>> ELSE anchors[n]],
              WIKI_PAT_search)

(***************************************************************************)
(* name_guess (line 120)                                                   *)
(***************************************************************************)
\* the pattern as the raw string literal of line 120 spells it
SPLIT_PATTERN == <<"[", "-", "endash", "emdash", "]", "|", "\\", "\\", "(", "|", "\\", "\\", "[">>

\* What re's parser makes of a pattern built from character sets, escaped
\* characters, groups and alternation of single characters: the error it
\* raises ("" when it compiles) and the characters the pattern matches.
RECURSIVE ParsePattern(_, _, _, _)
ParsePattern(p, n, depth, seps) ==
    IF n > Len(p)
    THEN [err |-> IF depth > 0 THEN "missing ), unterminated subpattern" ELSE "",
          seps |-> seps]
    ELSE CASE p[n] = "\\" ->
                IF n = Len(p) THEN [err |-> "bad escape (end of pattern)", seps |-> seps]
                ELSE ParsePattern(p, n + 2, depth, seps \cup {p[n + 1]})
           [] p[n] = "[" ->
                LET close == {j \in (n + 2)..Len(p) : p[j] = "]"}
                IN  IF close = {}
                    THEN [err |-> "unterminated character set", seps |-> seps]
                    ELSE LET j == CHOOSE a \in close : \A b \in close : a <= b
                         IN  ParsePattern(p, j + 1, depth,
                                          seps \cup {p[m] : m \in (n + 1)..(j - 1)})
           [] p[n] = "(" -> ParsePattern(p, n + 1, depth + 1, seps)
           [] p[n] = ")" ->
                IF depth = 0 THEN [err |-> "unbalanced parenthesis", seps |-> seps]
                ELSE ParsePattern(p, n + 1, depth - 1, seps)
           [] p[n] = "|" -> ParsePattern(p, n + 1, depth, seps)
           [] OTHER -> ParsePattern(p, n + 1, depth, seps \cup {p[n]})

Raised == <<"<re.error>">>

\* re.split(pattern, s, maxsplit=1)[0]
re_split_first(pattern, s) ==
    LET r == ParsePattern(pattern, 1, 0, {})
        hits == {n \in 1..Len(s) : s[n] \in r.seps}
    IN  IF r.err # "" THEN Raised
        ELSE IF hits = {} THEN s
        ELSE SubSeq(s, 1, (CHOOSE a \in hits : \A b \in hits : a <= b) - 1)

\* line 120
NameGuess(s) ==
    LET first == re_split_first(SPLIT_PATTERN, s)
    IN  IF first = Raised THEN Raised ELSE clean(first)

(***************************************************************************)
(* token and wiki_guess (lines 122-128)                                    *)
(***************************************************************************)
IsTokenChar(c) == c \in LowerLetters \cup Digits

RECURSIVE DropNonToken(_)
DropNonToken(s) ==
    IF s # <<>> /\ ~IsTokenChar(Head(s)) THEN DropNonToken(Tail(s)) ELSE s

\* re.sub(r"[^a-z0-9]+", "_", s)
RECURSIVE SubNonToken(_)
SubNonToken(s) ==
    IF s = <<>> THEN <<>>
    ELSE IF IsTokenChar(Head(s)) THEN <<Head(s)>> \o SubNonToken(Tail(s))
    ELSE <<"_">> \o SubNonToken(DropNonToken(s))

\* str.strip("_")
StripUnderscores(s) ==
    LET inner == {n \in 1..Len(s) : s[n] # "_"}
    IN  IF inner = {} THEN <<>>
        ELSE SubSeq(s, CHOOSE a \in inner : \A b \in inner : a <= b,
                       CHOOSE a \in inner : \A b \in inner : a >= b)

\* the token without the lower-casing
Token_Mutant(name) == StripUnderscores(SubNonToken(name))

\* line 124
Token(name) == StripUnderscores(SubNonToken(Lower(name)))

\* the loop without its break: the last matching link wins
RECURSIVE WikiGuess_Mutant(_, _)
WikiGuess_Mutant(tok, links) ==
    IF links = <<>> THEN <<>>
    ELSE IF tok # <<>> /\ Contains(Lower(links[Len(links)]), tok) THEN links[Len(links)]
    ELSE WikiGuess_Mutant(tok, SubSeq(links, 1, Len(links) - 1))

\* lines 122-128
RECURSIVE WikiGuess(_, _)
WikiGuess(tok, links) ==
    IF links = <<>> THEN <<>>
    ELSE IF tok # <<>> /\ Contains(Lower(Head(links)), tok) THEN Head(links)
    ELSE WikiGuess(tok, Tail(links))

(***************************************************************************)
(* Configuration (lines 24-34) and the lines main() appends                *)
(***************************************************************************)
URLS ==
    << <<"h", "t", "t", "p", "s", ":", "/", "/", "w", "w", "w", ".", "s", "e", "e", "i", "n", "g", "-", "s", "t", "a", "r", "s", ".", "c", "o", "m", "/", "D", "i", "e", "d", "/", "2", "0", "1", "0", "s", ".", "s", "h", "t", "m", "l">>,
       <<"h", "t", "t", "p", "s", ":", "/", "/", "w", "w", "w", ".", "s", "e", "e", "i", "n", "g", "-", "s", "t", "a", "r", "s", ".", "c", "o", "m", "/", "D", "i", "e", "d", "/", "2", "0", "0", "0", "s", ".", "s", "h", "t", "m", "l">>,
       <<"h", "t", "t", "p", "s", ":", "/", "/", "w", "w", "w", ".", "s", "e", "e", "i", "n", "g", "-", "s", "t", "a", "r", "s", ".", "c", "o", "m", "/", "D", "i", "e", "d", "/", "9", "0", "s", ".", "s", "h", "t", "m", "l">>,
       <<"h", "t", "t", "p", "s", ":", "/", "/", "w", "w", "w", ".", "s", "e", "e", "i", "n", "g", "-", "s", "t", "a", "r", "s", ".", "c", "o", "m", "/", "D", "i", "e", "d", "/", "8", "0", "s", ".", "s", "h", "t", "m", "l">>,
       <<"h", "t", "t", "p", "s", ":", "/", "/", "w", "w", "w", ".", "s", "e", "e", "i", "n", "g", "-", "s", "t", "a", "r", "s", ".", "c", "o", "m", "/", "D", "i", "e", "d", "/", "7", "0", "s", ".", "s", "h", "t", "m", "l">>,
       <<"h", "t", "t", "p", "s", ":", "/", "/", "w", "w", "w", ".", "s", "e", "e", "i", "n", "g", "-", "s", "t", "a", "r", "s", ".", "c", "o", "m", "/", "D", "i", "e", "d", "/", "6", "0", "s", ".", "s", "h", "t", "m", "l">>,
       <<"h", "t", "t", "p", "s", ":", "/", "/", "w", "w", "w", ".", "s", "e", "e", "i", "n", "g", "-", "s", "t", "a", "r", "s", ".", "c", "o", "m", "/", "D", "i", "e", "d", "/", "5", "0", "s", "_", "2", "0", "s", ".", "s", "h", "t", "m", "l", "#", "2", "0", "s">> >>

OUTFILE == <<"s", "e", "e", "i", "n", "g", "-", "s", "t", "a", "r", "s", "-", "s", "u", "m", "m", "a", "r", "i", "e", "s", ".", "t", "x", "t">>

RawDumpLimit == 200

\* "=" * 90
Separator == [n \in 1..90 |-> "="]

\* lines 63-67
ReportHeader(now) ==
    << <<"S", "e", "e", "i", "n", "g", "-", "S", "t", "a", "r", "s", " ", "S", "u", "m", "m", "a", "r", "y", " ", "E", "x", "t", "r", "a", "c", "t">>,
       <<"G", "e", "n", "e", "r", "a", "t", "e", "d", ":", " ">> \o now,
       <<"R", "e", "q", "u", "e", "s", "t", "e", "d", " ", "f", "i", "e", "l", "d", "s", ":", " ", "N", "a", "m", "e", " ", "|", " ", "D", "a", "t", "e", " ", "o", "f", " ", "d", "e", "a", "t", "h", " ", "|", " ", "L", "o", "c", "a", "t", "i", "o", "n", " ", "|", " ", "C", "a", "u", "s", "e", " ", "|", " ", "W", "i", "k", "i", "p", "e", "d", "i", "a", " ", "(", "i", "f", " ", "a", "v", "a", "i", "l", "a", "b", "l", "e", ")">>,
       <<"N", "O", "T", "E", ":", " ", "T", "h", "i", "s", " ", "i", "s", " ", "a", " ", "l", "o", "o", "s", "e", " ", "e", "x", "t", "r", "a", "c", "t", "i", "o", "n", ".", " ", "S", "o", "m", "e", " ", "l", "i", "n", "e", "s", " ", "m", "a", "y", " ", "n", "e", "e", "d", " ", "m", "a", "n", "u", "a", "l", " ", "c", "l", "e", "a", "n", "u", "p", ".">>,
       <<>> >>

\* the header without its closing separator
SourceHeader_Mutant(url) == << Separator, <<"S", "O", "U", "R", "C", "E", ":", " ">> \o url >>

\* lines 72-74
SourceHeader(url) == << Separator, <<"S", "O", "U", "R", "C", "E", ":", " ">> \o url, Separator >>

\* lines 79-80
ErrorBlock(e) == << <<"[", "E", "R", "R", "O", "R", "]", " ", "C", "o", "u", "l", "d", " ", "n", "o", "t", " ", "f", "e", "t", "c", "h", " ", "p", "a", "g", "e", ":", " ">> \o e, <<>> >>

\* the dump without its slice
RawDump_Mutant(ls) == ls

\* lines[:200] (line 111)
RawDump(ls) == SubSeq(ls, 1, IF Len(ls) < RawDumpLimit THEN Len(ls) ELSE RawDumpLimit)

\* lines 110-113
DebugBlock(ls) ==
    << <<"[", "D", "E", "B", "U", "G", "]", " ", "N", "o", " ", "d", "a", "t", "e", "-", "l", "i", "k", "e", " ", "l", "i", "n", "e", "s", " ", "f", "o", "u", "n", "d", ".", " ", "F", "i", "r", "s", "t", " ", "2", "0", "0", " ", "r", "a", "w", " ", "l", "i", "n", "e", "s", " ", "f", "r", "o", "m", " ", "p", "a", "g", "e", ":">> >>
    \o [n \in 1..Len(RawDump(ls)) |-> <<"-", " ", "R", "A", "W", ":", " ">> \o RawDump(ls)[n]]
    \o << <<>> >>

\* lines 130-133
EntryBlock(name, line, wiki) ==
    << <<"-", " ", "N", "a", "m", "e", ":", " ">> \o name,
       <<" ", " ", "S", "u", "m", "m", "a", "r", "y", " ", "l", "i", "n", "e", ":", " ">> \o line,
       <<" ", " ", "W", "i", "k", "i", "p", "e", "d", "i", "a", ":", " ">> \o wiki,
       <<>> >>

\* "\n".join(ls[a..b]) (line 138)
RECURSIVE JoinRange(_, _, _)
JoinRange(ls, a, b) ==
    IF a > b THEN <<>>
    ELSE IF a = b THEN ls[a]
    ELSE LET mid == (a + b) \div 2
         IN  JoinRange(ls, a, mid) \o <<"\n">> \o JoinRange(ls, mid + 1, b)

JoinLines(ls) == JoinRange(ls, 1, Len(ls))

\* str(n) of a non-negative int, as the f-string of line 140 formats it
RECURSIVE Decimal(_)
Decimal(n) ==
    LET d == <<"0", "1", "2", "3", "4", "5", "6", "7", "8", "9">>[(n % 10) + 1]
    IN  IF n < 10 THEN <<d>> ELSE Decimal(n \div 10) \o <<d>>

\* line 140
DoneMessage(n) == <<"D", "o", "n", "e", ".", " ", "W", "r", "o", "t", "e", " ">> \o Decimal(n) \o <<" ", "e", "n", "t", "r", "y", " ", "l", "i", "n", "e", "s", " ", "t", "o", " ">> \o OUTFILE

(***************************************************************************)
(* The environment: what a fetch can give                                  *)
(***************************************************************************)
MaxExtremeFetches == 1

LongPageLen == 201

NowValues == { <<"2", "0", "2", "4", "-", "0", "5", "-", "0", "1", "T", "1", "2", ":", "0", "0", ":", "0", "0">> }

\* str(e) of the exceptions fetch_html lets through (lines 48-49)
FetchErrors == { <<"4", "0", "4", " ", "C", "l", "i", "e", "n", "t", " ", "E", "r", "r", "o", "r", ":", " ", "N", "o", "t", " ", "F", "o", "u", "n", "d">> }

ThreeDigits(n) ==
    LET d == <<"0", "1", "2", "3", "4", "5", "6", "7", "8", "9">>
    IN  << d[((n \div 100) % 10) + 1], d[((n \div 10) % 10) + 1], d[(n % 10) + 1] >>

JaneLink == <<"h", "t", "t", "p", "s", ":", "/", "/", "e", "n", ".", "w", "i", "k", "i", "p", "e", "d", "i", "a", ".", "o", "r", "g", "/", "w", "i", "k", "i", "/", "J", "a", "n", "e", "_", "Q", ".", "_", "P", "u", "b", "l", "i", "c">>

JaneDoeLink == <<"h", "t", "t", "p", "s", ":", "/", "/", "e", "n", ".", "w", "i", "k", "i", "p", "e", "d", "i", "a", ".", "o", "r", "g", "/", "w", "i", "k", "i", "/", "J", "a", "n", "e", "_", "D", "o", "e">>

JanePlainLink == <<"h", "t", "t", "p", "s", ":", "/", "/", "e", "n", ".", "w", "i", "k", "i", "p", "e", "d", "i", "a", ".", "o", "r", "g", "/", "w", "i", "k", "i", "/", "J", "a", "n", "e", "_", "Q", "_", "P", "u", "b", "l", "i", "c">>

JaneLine == <<"J", "a", "n", "e", " ", "Q", ".", " ", "P", "u", "b", "l", "i", "c", " ", "-", " ", "M", "a", "r", "c", "h", " ", "4", ",", " ", "1", "9", "7", "7", ",", " ", "O", "h", "i", "o">>

PageEmpty == [segs |-> << <<>> >>, anchors |-> <<>>]

PageNoDate ==
    [segs |-> << <<" ", " ", "H", "o", "l", "l", "y", "w", "o", "o", "d", " ", " ", " ", "d", "e", "a", "t", "h", "s", " ">>, <<>>, <<"\t", "B", "a", "c", "k", " ", "t", "o", " ", "t", "h", "e", " ", "i", "n", "d", "e", "x">>, <<"1", "/", "2", "/", "3", "4">>,
                 <<"D", "i", "e", "d", " ", "i", "n", " ", "t", "h", "e", " ", "1", "9", "7", "0", "s">>, <<"Y", "e", "a", "r", " ", "1", "9", "9", "9">> >>,
     anchors |-> << NoHref, JaneDoeLink, <<"/", "D", "i", "e", "d", "/", "i", "n", "d", "e", "x", ".", "s", "h", "t", "m", "l">> >>]

PageLong == [segs |-> [n \in 1..LongPageLen |-> ThreeDigits(n)], anchors |-> <<>>]

PageJane ==
    [segs |-> << <<"I", "n", "t", "r", "o">>, JaneLine, <<" ", " ">>, <<"N", "o", " ", "S", "e", "p", "a", "r", "a", "t", "o", "r", " ", "H", "e", "r", "e", " ", "1", "9", "9", "9">> >>,
     anchors |-> << <<"i", "n", "d", "e", "x", ".", "h", "t", "m", "l">>, JaneLink >>]

PageYears ==
    [segs |-> << <<"J", "o", "h", "n", " ", "D", "o", "e", " ", "(", "1", "9", "5", "0", ")", " ", "[", "a", "c", "t", "o", "r", "]">>, <<"M", "a", "r", "y", " ", "R", "o", "e", " ">> \o <<"endash">> \o <<" ", "1", "2", "/", "3", "1", "/", "1", "9", "9", "9">> >>,
     anchors |-> <<>>]

\* the pages of ordinary size, and the two extremes: no line at all, more lines than the dump shows
OrdinaryPages == {PageNoDate, PageJane, PageYears}

ExtremePages == {PageEmpty, PageLong}

(***************************************************************************)
(* main() (lines 61-140)                                                   *)
(***************************************************************************)
Init ==
    /\ pc = "loop"
    /\ i = 1
    /\ \E now \in NowValues : out = ReportHeader(now)
    /\ total_lines = 0
    /\ page = NoValue
    /\ lines = NoValue
    /\ wiki_links = NoValue
    /\ kept = NoValue
    /\ k = 0
    /\ ln = NoValue
    /\ name_guess = NoValue
    /\ token = NoValue
    /\ wiki_guess = NoValue
    /\ written = NoValue
    /\ console = NoValue
    /\ hist = <<>>
    /\ processed = <<>>
    /\ extremes = 0
    /\ arg = NoValue

\* lines 71-74: the next url's header
BeginSource ==
    /\ pc = "loop"
    /\ i <= Len(URLS)
    /\ out' = out \o SourceHeader(URLS[i])
    /\ hist' = Append(hist, [start |-> Len(out) + 1, total0 |-> total_lines,
                             fetch |-> "pending", lines |-> <<>>, kept |-> <<>>])
    /\ pc' = "fetch"
    /\ UNCHANGED <<i, total_lines, page, lines, wiki_links, kept, k, ln, name_guess,
                   token, wiki_guess, written, console, processed, extremes, arg>>

\* lines 76-81: fetch_html raises
FetchFails ==
    /\ pc = "fetch"
    /\ \E e \in FetchErrors : out' = out \o ErrorBlock(e)
    /\ hist' = [hist EXCEPT ![i].fetch = "failed"]
    /\ i' = i + 1
    /\ pc' = "loop"
    /\ UNCHANGED <<total_lines, page, lines, wiki_links, kept, k, ln, name_guess,
                   token, wiki_guess, written, console, processed, extremes, arg>>

\* lines 77 and 83-109: the page is fetched, normalised, its links collected, its lines filtered
Parsed(p) ==
    /\ page' = p
    /\ lines' = Normalize(p.segs)
    /\ wiki_links' = CollectWikiLinks(p.anchors)
    /\ kept' = KeepLines(lines')
    /\ hist' = [hist EXCEPT ![i].fetch = "ok", ![i].lines = lines', ![i].kept = kept']
    /\ pc' = IF kept' = <<>> THEN "debug" ELSE "entries"
    /\ k' = 1
    /\ UNCHANGED <<i, out, total_lines, ln, name_guess, token, wiki_guess, written,
                   console, processed, arg>>

FetchSucceeds ==
    /\ pc = "fetch"
    /\ \/ \E p \in OrdinaryPages : Parsed(p) /\ extremes' = extremes
       \/ /\ extremes < MaxExtremeFetches
          /\ \E p \in ExtremePages : Parsed(p)
          /\ extremes' = extremes + 1

\* lines 109-114
EmitDebug ==
    /\ pc = "debug"
    /\ out' = out \o DebugBlock(lines)
    /\ i' = i + 1
    /\ pc' = "loop"
    /\ UNCHANGED <<total_lines, page, lines, wiki_links, kept, k, ln, name_guess,
                   token, wiki_guess, written, console, hist, processed, extremes, arg>>

\* lines 117-135: one iteration of the loop over kept; an exception of line 120
\* leaves main(); line 135 follows the last iteration
KeptLine ==
    /\ pc = "entries"
    /\ k <= Len(kept)
    /\ ln' = kept[k]
    /\ total_lines' = total_lines + 1
    /\ processed' = Append(processed, <<i, k, kept[k]>>)
    /\ IF NameGuess(kept[k]) = Raised
       THEN /\ pc' = "raised"
            /\ UNCHANGED <<i, out, k, name_guess, token, wiki_guess>>
       ELSE /\ name_guess' = NameGuess(kept[k])
            /\ token' = Token(name_guess')
            /\ wiki_guess' = WikiGuess(token', wiki_links)
            /\ IF k = Len(kept)
               THEN /\ out' = out \o EntryBlock(name_guess', kept[k], wiki_guess') \o << <<>> >>
                    /\ i' = i + 1
                    /\ pc' = "loop"
                    /\ k' = k
               ELSE /\ out' = out \o EntryBlock(name_guess', kept[k], wiki_guess')
                    /\ k' = k + 1
                    /\ UNCHANGED <<i, pc>>
    /\ UNCHANGED <<page, lines, wiki_links, kept, written, console, hist, extremes, arg>>

\* lines 137-140
WriteReport ==
    /\ pc = "loop"
    /\ i > Len(URLS)
    /\ written' = JoinLines(out)
    /\ console' = DoneMessage(total_lines)
    /\ pc' = "done"
    /\ UNCHANGED <<i, out, total_lines, page, lines, wiki_links, kept, k, ln, name_guess,
                   token, wiki_guess, hist, processed, extremes, arg>>

Next ==
    \/ BeginSource
    \/ FetchFails
    \/ FetchSucceeds
    \/ EmitDebug
    \/ KeptLine
    \/ WriteReport

Spec == Init /\ [][Next]_vars

(***************************************************************************)
(* The entry filter on its own: lines 100-106 applied to a page's lines    *)
(***************************************************************************)
MaxPageLines == 2

\* normalised lines (what clean returns) around the edges of DATE_PAT and of the length test
FilterLines ==
    { JaneLine, <<"N", "o", " ", "S", "e", "p", "a", "r", "a", "t", "o", "r", " ", "H", "e", "r", "e", " ", "1", "9", "9", "9">>, <<"D", "i", "e", "d", " ", "1", "9", "9", "9", ".">>, <<"D", "i", "e", "d", " ", "1", "9", "9", "9">>, <<"1", "/", "2", "/", "3", "4">>,
      <<"B", "o", "r", "n", " ", "1", "/", "2", "/", "3", "4", " ", "L", "A">>, <<"R", "a", "t", "i", "o", " ", "1", "/", "2", "/", "3", " ", "o", "n", "l", "y">>, <<"D", "i", "e", "d", " ", "i", "n", " ", "t", "h", "e", " ", "1", "9", "7", "0", "s">>, <<"B", "o", "r", "n", " ", "i", "n", " ", "1", "8", "9", "9", " ", "h", "e", "r", "e">>,
      <<"Y", "e", "a", "r", " ", "1", "9", "0", "0", " ", "s", "t", "a", "r", "t">>, <<"U", "n", "t", "i", "l", " ", "2", "0", "9", "9", " ", "e", "n", "d", "s">>, <<"A", "b", "o", "u", "t", " ", "2", "1", "0", "0", " ", "p", "p", "l">>, <<"i", "d", "_", "1", "9", "9", "9", "_", "b", " ", "h", "e", "r", "e">>,
      <<"S", "e", "p", "t", " ", "1", "4", ",", " ", "1", "8", "5", "0", " ", "n", "y">>, <<"M", "A", "R", "C", "H", " ", "0", "4", ",", " ", "1", "8", "5", "0", " ", "x">>, <<"M", "a", "y", " ", "4", " ", "1", "8", "5", "0", " ", "d", "i", "e", "d">>, <<"M", "a", "y", " ", "4", ",", "1", "8", "5", "0", " ", "d", "i", "e", "d">>,
      <<"M", "a", "y", "o", " ", "4", ",", " ", "1", "8", "5", "0", " ", "x", "x">>, <<"x", "M", "a", "y", " ", "4", ",", " ", "1", "8", "5", "0", "0", " ", "z">>, <<"1", "2", "3", "4", "5", "/", "6", "/", "7", "8", "9", "0", "1", " ", "x">> }

SeqsUpTo(S, n) == UNION { [1..m -> S] : m \in 0..n }

InitFilter ==
    /\ pc = "filter"
    /\ lines \in SeqsUpTo(FilterLines, MaxPageLines) \ {<<>>}
    /\ kept = NoValue
    /\ i = 1 /\ out = <<>> /\ total_lines = 0 /\ page = NoValue /\ wiki_links = NoValue
    /\ k = 0 /\ ln = NoValue /\ name_guess = NoValue /\ token = NoValue
    /\ wiki_guess = NoValue /\ written = NoValue /\ console = NoValue /\ hist = <<>>
    /\ processed = <<>> /\ extremes = 0 /\ arg = NoValue

\* lines 101-106
FilterLinesStep ==
    /\ pc = "filter"
    /\ kept' = KeepLines(lines)
    /\ pc' = "filtered"
    /\ UNCHANGED <<i, out, total_lines, page, lines, wiki_links, k, ln, name_guess,
                   token, wiki_guess, written, console, hist, processed, extremes, arg>>

NextFilter == FilterLinesStep

SpecFilter == InitFilter /\ [][NextFilter]_vars

(***************************************************************************)
(* Link association on its own: lines 93-98 for an earlier and for the     *)
(* current page, then lines 122-128 for a given name_guess                 *)
(***************************************************************************)
MaxAnchors == 2

NameGuesses ==
    { <<"J", "a", "n", "e", " ", "Q", ".", " ", "P", "u", "b", "l", "i", "c">>, <<"J", "a", "n", "e">>, <<"J", "A", "N", "E", " ", " ", "q">>, <<"J", "o", "h", "n", " ", "S", "m", "i", "t", "h">>, <<".", ".", ".">>, <<>> }

Anchors ==
    { JaneLink, JaneDoeLink, JanePlainLink, <<"H", "T", "T", "P", ":", "/", "/", "E", "N", ".", "W", "I", "K", "I", "P", "E", "D", "I", "A", ".", "O", "R", "G", "/", "W", "I", "K", "I", "/", "J", "A", "N", "E", "_", "Q", "_", "P", "U", "B", "L", "I", "C">>,
      <<"h", "t", "t", "p", "s", ":", "/", "/", "e", "x", "a", "m", "p", "l", "e", ".", "o", "r", "g", "/", "J", "o", "h", "n", "_", "S", "m", "i", "t", "h">>, NoHref }

EarlierAnchors == { <<>>, <<JaneLink>>, <<<<"h", "t", "t", "p", "s", ":", "/", "/", "e", "n", ".", "w", "i", "k", "i", "p", "e", "d", "i", "a", ".", "o", "r", "g", "/", "w", "i", "k", "i", "/", "J", "o", "h", "n", "_", "S", "m", "i", "t", "h">>>> }

InitFormat ==
    /\ pc = "earlier page"
    /\ arg \in [name : NameGuesses, earlier : EarlierAnchors,
                current : SeqsUpTo(Anchors, MaxAnchors)]
    /\ wiki_links = NoValue /\ name_guess = NoValue /\ token = NoValue
    /\ wiki_guess = NoValue
    /\ i = 1 /\ out = <<>> /\ total_lines = 0 /\ page = NoValue /\ lines = NoValue
    /\ kept = NoValue /\ k = 0 /\ ln = NoValue /\ written = NoValue /\ console = NoValue
    /\ hist = <<>> /\ processed = <<>> /\ extremes = 0

\* lines 94-98, on the page of an earlier iteration
CollectEarlier ==
    /\ pc = "earlier page"
    /\ wiki_links' = CollectWikiLinks(arg.earlier)
    /\ pc' = "current page"
    /\ UNCHANGED <<i, out, total_lines, page, lines, kept, k, ln, name_guess, token,
                   wiki_guess, written, console, hist, processed, extremes, arg>>

\* lines 94-98, on the current page
CollectCurrent ==
    /\ pc = "current page"
    /\ wiki_links' = CollectWikiLinks(arg.current)
    /\ pc' = "attach"
    /\ UNCHANGED <<i, out, total_lines, page, lines, kept, k, ln, name_guess, token,
                   wiki_guess, written, console, hist, processed, extremes, arg>>

\* lines 122-128
AttachLink ==
    /\ pc = "attach"
    /\ name_guess' = arg.name
    /\ token' = Token(arg.name)
    /\ wiki_guess' = WikiGuess(token', wiki_links)
    /\ pc' = "attached"
    /\ UNCHANGED <<i, out, total_lines, page, lines, wiki_links, kept, k, ln, written,
                   console, hist, processed, extremes, arg>>

NextFormat == CollectEarlier \/ CollectCurrent \/ AttachLink

SpecFormat == InitFormat /\ [][NextFormat]_vars

(***************************************************************************)
(* Reading the report buffer                                               *)
(***************************************************************************)
HasPrefix(l, pre) == Len(l) >= Len(pre) /\ SubSeq(l, 1, Len(pre)) = pre

IsNameLine(l) == HasPrefix(l, <<"-", " ", "N", "a", "m", "e", ":", " ">>)

IsSummaryLine(l) == HasPrefix(l, <<" ", " ", "S", "u", "m", "m", "a", "r", "y", " ", "l", "i", "n", "e", ":", " ">>)

IsWikipediaLine(l) == HasPrefix(l, <<" ", " ", "W", "i", "k", "i", "p", "e", "d", "i", "a", ":", " ">>)

IsEntryLine(l) == IsNameLine(l) \/ IsSummaryLine(l) \/ IsWikipediaLine(l)

IsErrorLine(l) == HasPrefix(l, <<"[", "E", "R", "R", "O", "R", "]">>)

IsDebugLine(l) == HasPrefix(l, <<"[", "D", "E", "B", "U", "G", "]">>)

IsRawLine(l) == HasPrefix(l, <<"-", " ", "R", "A", "W", ":", " ">>)

IsSourceLine(l) == HasPrefix(l, <<"S", "O", "U", "R", "C", "E", ":", " ">>)

Count(ls, P(_)) == Cardinality({n \in 1..Len(ls) : P(ls[n])})

\* the part of the buffer appended for the j-th url
Block(j) ==
    SubSeq(out, hist[j].start, IF j < Len(hist) THEN hist[j + 1].start - 1 ELSE Len(out))

\* the j-th url's iteration is over
Finished(j) == j < i

\* the counter when the j-th url's iteration was over
TotalAfter(j) == IF j < Len(hist) THEN hist[j + 1].total0 ELSE total_lines

Returned == pc \in {"done", "raised"}

(***************************************************************************)
(* C1                                                                      *)
(***************************************************************************)
\* The per-source part of C1: a url whose fetch failed has exactly one [ERROR]
\* line and no entry line in its block, and leaves the counter as it was.
C1_ErrorBlockOnly ==
    \A j \in 1..Len(hist) :
        hist[j].fetch = "failed" =>
            /\ Count(Block(j), IsErrorLine) = 1
            /\ Count(Block(j), IsEntryLine) = 0
            /\ TotalAfter(j) = hist[j].total0

\* C1: if fetching a url fails, the buffer receives exactly one [ERROR] line
\* and no entry block for it, the counter is unchanged by it, and the loop
\* goes on to process every subsequent url: when main() is over, every url
\* after the failed one has had its iteration.
C1_FetchFailureIsolated ==
    /\ C1_ErrorBlockOnly
    /\ \A j \in 1..Len(hist) :
           (hist[j].fetch = "failed" /\ Returned) =>
               \A later \in (j + 1)..Len(URLS) : Finished(later)

(***************************************************************************)
(* C2                                                                      *)
(***************************************************************************)
\* C2: whatever the fetches give, main() never fails in the parse, filter
\* and format stages (the split of line 120 never raises), and when it is
\* over it has gone through all the urls, written the whole buffer to the
\* output file and reported the total.
C2_MainCompletes ==
    /\ pc # "raised"
    /\ pc = "done" =>
           /\ i = Len(URLS) + 1
           /\ written = JoinLines(out)
           /\ console = DoneMessage(total_lines)

(***************************************************************************)
(* C3                                                                      *)
(***************************************************************************)
\* C3: a fetched source with no kept line gets one [DEBUG] block whose RAW
\* lines are the first min(200, n) of its n normalised lines in page order,
\* gets no entry line, and leaves the counter as it was.
C3_DebugBlock ==
    \A j \in 1..Len(hist) :
        (hist[j].fetch = "ok" /\ hist[j].kept = <<>> /\ Finished(j)) =>
            LET raws == SelectSeq(Block(j), IsRawLine)
                n == Len(hist[j].lines)
                m == IF n < 200 THEN n ELSE 200
            IN  /\ Count(Block(j), IsDebugLine) = 1
                /\ Len(raws) <= 200
                /\ Len(raws) = m
                /\ \A q \in 1..m : raws[q] = <<"-", " ", "R", "A", "W", ":", " ">> \o hist[j].lines[q]
                /\ Count(Block(j), IsEntryLine) = 0
                /\ TotalAfter(j) = hist[j].total0

\* a page of more than 200 lines, none kept, has been dumped
C3_Witness ==
    \E j \in 1..Len(hist) :
        /\ hist[j].fetch = "ok" /\ hist[j].kept = <<>> /\ Finished(j)
        /\ Len(hist[j].lines) > 200
        /\ Count(Block(j), IsRawLine) = 200

(***************************************************************************)
(* C4                                                                      *)
(***************************************************************************)
MonthNames ==
    { <<"j", "a", "n", "u", "a", "r", "y">>, <<"f", "e", "b", "r", "u", "a", "r", "y">>, <<"m", "a", "r", "c", "h">>, <<"a", "p", "r", "i", "l">>, <<"m", "a", "y">>, <<"j", "u", "n", "e">>, <<"j", "u", "l", "y">>, <<"a", "u", "g", "u", "s", "t">>,
      <<"s", "e", "p", "t", "e", "m", "b", "e", "r">>, <<"o", "c", "t", "o", "b", "e", "r">>, <<"n", "o", "v", "e", "m", "b", "e", "r">>, <<"d", "e", "c", "e", "m", "b", "e", "r">> }

MonthAbbreviations ==
    { <<"j", "a", "n">>, <<"f", "e", "b">>, <<"m", "a", "r">>, <<"a", "p", "r">>, <<"m", "a", "y">>, <<"j", "u", "n">>, <<"j", "u", "l">>, <<"a", "u", "g">>, <<"s", "e", "p">>, <<"s", "e", "p", "t">>,
      <<"o", "c", "t">>, <<"n", "o", "v">>, <<"d", "e", "c">> }

AllDigits(t) == \A n \in 1..Len(t) : t[n] \in Digits

DigitValue(c) == CHOOSE v \in 0..9 : <<"0", "1", "2", "3", "4", "5", "6", "7", "8", "9">>[v + 1] = c

YearValue(t) ==
    1000 * DigitValue(t[1]) + 100 * DigitValue(t[2]) + 10 * DigitValue(t[3]) + DigitValue(t[4])

\* s has, from a on, <month> <day>, <year>, e.g. "March 4, 1977"
ReadsMonthDayYear(s, a) ==
    \E m \in MonthNames \cup MonthAbbreviations, d \in 1..2 :
        LET day == a + Len(m) + 1
            year == day + d + 2
        IN  /\ year + 3 <= Len(s)
            /\ Lower(SubSeq(s, a, a + Len(m) - 1)) = m
            /\ s[day - 1] = " "
            /\ AllDigits(SubSeq(s, day, day + d - 1))
            /\ s[day + d] = ","
            /\ s[day + d + 1] = " "
            /\ AllDigits(SubSeq(s, year, year + 3))

\* s has, from a on, D{1,2}/D{1,2}/D{2,4}
ReadsNumericDate(s, a) ==
    \E x \in 1..2, y \in 1..2, z \in 2..4 :
        /\ a + x + y + z + 1 <= Len(s)
        /\ AllDigits(SubSeq(s, a, a + x - 1))
        /\ s[a + x] = "/"
        /\ AllDigits(SubSeq(s, a + x + 1, a + x + y))
        /\ s[a + x + y + 1] = "/"
        /\ AllDigits(SubSeq(s, a + x + y + 2, a + x + y + z + 1))

\* s[a..a+3] is a year of 1900-2099 standing alone
IsStandaloneYear(s, a) ==
    /\ a + 3 <= Len(s)
    /\ AllDigits(SubSeq(s, a, a + 3))
    /\ YearValue(SubSeq(s, a, a + 3)) \in 1900..2099
    /\ a > 1 => ~IsWord(s[a - 1])
    /\ a + 3 < Len(s) => ~IsWord(s[a + 4])

HasDateShape(s) ==
    \E a \in 1..Len(s) :
        ReadsMonthDayYear(s, a) \/ ReadsNumericDate(s, a) \/ IsStandaloneYear(s, a)

ShouldKeep(s) == Len(s) >= 10 /\ HasDateShape(s)

\* C4: the filter keeps a normalised line iff it has at least 10 characters
\* and contains one of the three date shapes; the kept lines are the page's
\* lines, unmodified and in page order.
C4_FilterKeeps ==
    pc = "filtered" => kept = SelectSeq(lines, ShouldKeep)

\* a page of two lines: a kept one, and one that has a date but is too short
C4_Witness ==
    /\ pc = "filtered"
    /\ Len(lines) = 2
    /\ kept = <<lines[2]>>
    /\ HasDateShape(lines[1]) /\ Len(lines[1]) < 10
    /\ Len(lines[2]) = 10

(***************************************************************************)
(* C5                                                                      *)
(***************************************************************************)
Separators == {"-", "endash", "emdash", "(", "["}

\* the line up to its earliest separator, whitespace-collapsed and trimmed
PrefixBeforeSeparator(s) ==
    LET at == {n \in 1..Len(s) : s[n] \in Separators}
    IN  IF at = {} THEN clean(s)
        ELSE clean(SubSeq(s, 1, (CHOOSE a \in at : \A b \in at : a <= b) - 1))

\* C5: for every kept line the loop has taken up, name_guess is the prefix
\* of the line before the earliest of - , en dash, em dash, ( and [ ,
\* cleaned, and the whole line when it has none of them.
C5_NameGuessIsPrefix ==
    ln # NoValue => name_guess = PrefixBeforeSeparator(ln)

C7_AppendOnly ==
    [][Len(out') >= Len(out) /\ SubSeq(out', 1, Len(out)) = out]_vars

TokenChars(s) == SelectSeq(s, IsTokenChar)

\* t is s lower-cased with every run outside [a-z0-9] made one underscore and
\* the underscores at both ends removed
IsTokenOf(t, s) ==
    /\ \A n \in 1..Len(t) : IsTokenChar(t[n]) \/ t[n] = "_"
    /\ t # <<>> => t[1] # "_" /\ t[Len(t)] # "_"
    /\ \A n \in 1..(Len(t) - 1) : ~(t[n] = "_" /\ t[n + 1] = "_")
    /\ TokenChars(t) = TokenChars(Lower(s))
    /\ Count(t, LAMBDA c : c = "_") =
           Cardinality({n \in 2..Len(Lower(s)) :
                           /\ IsTokenChar(Lower(s)[n])
                           /\ ~IsTokenChar(Lower(s)[n - 1])
                           /\ \E m \in 1..(n - 1) : IsTokenChar(Lower(s)[m])})

C9_CounterMatchesEntries ==
    /\ total_lines = Count(out, IsNameLine)
    /\ total_lines = Len(processed)
    /\ Count(out, IsSummaryLine) = total_lines
    /\ Count(out, IsWikipediaLine) = total_lines
    /\ pc = "done" => console = DoneMessage(Count(out, IsNameLine))

(***************************************************************************)
(* C10                                                                     *)
(***************************************************************************)
IsErrorBody(b) == Len(b) = 2 /\ IsErrorLine(b[1]) /\ b[2] = <<>>

IsDebugBody(b) ==
    /\ Len(b) >= 2
    /\ IsDebugLine(b[1])
    /\ b[Len(b)] = <<>>
    /\ \A n \in 2..(Len(b) - 1) : IsRawLine(b[n])

IsEntriesBody(b) ==
    /\ Len(b) >= 5
    /\ (Len(b) - 1) % 4 = 0
    /\ b[Len(b)] = <<>>
    /\ \A n \in 1..(Len(b) - 1) :
           CASE n % 4 = 1 -> IsNameLine(b[n])
             [] n % 4 = 2 -> IsSummaryLine(b[n])
             [] n % 4 = 3 -> IsWikipediaLine(b[n])
             [] OTHER -> b[n] = <<>>

=============================================================================
